---- MODULE Spec2Model ----
(***************************************************************************)
(* Tenant resolution and isolation core of the tms back office:            *)
(* tenants/middleware.py (TenantMiddleware and the thread-local context),  *)
(* accounts/models.py (has_tenant_permission), tenants/models.py           *)
(* (Tenant, TenantUser), tenants/views.py (tenant selection, creation,     *)
(* member removal) and core/models.py (TenantAwareManager,                 *)
(* TenantAwareModel.save).                                                 *)
(***************************************************************************)
EXTENDS Naturals, Sequences, FiniteSets, TLC

\* ------------------------------------------------------------------ domains

None == "None"
Anon == "AnonymousUser"

\* Primary keys of the Tenant rows the model ranges over; Slug is Tenant.slug.
TenantIds == {"A", "B"}
Slug(t) == IF t = "A" THEN "a" ELSE "b"

\* CustomUser rows.  "root" carries is_superuser = True.
Users == {"u1", "u2", "root"}
is_superuser(u) == u = "root"
is_authenticated(u) == u # Anon

\* Worker threads of the WSGI server; each handles one request at a time.
Threads == {"th1", "th2"}

\* Largest number of tenant-scoped records the model stores.
MaxRecords == 2
RecordIds == 1..MaxRecords

\* request.get_host() values: the labels of the host name and whether a port
\* follows it.  Upper-case labels exercise .lower().
Hosts ==
    { [labels |-> <<"a", "example", "com">>, port |-> FALSE],
      [labels |-> <<"B", "example", "com">>, port |-> TRUE],
      [labels |-> <<"www", "example", "com">>, port |-> FALSE],
      [labels |-> <<"example", "com">>, port |-> FALSE] }

\* HTTP_X_TENANT_ID values (None: header absent).
Headers == TenantIds \cup {None}

\* request.path values, as the sequence of their "/"-terminated segments.
Paths ==
    { <<"auth", "login">>,
      <<"invitations", "accept", "tok">>,
      <<"dashboard">> }

\* The paths at which the URL configuration routes register, login, logout
\* and accept_invitation: accounts.urls is included at "accounts/" and
\* tenants.urls at "tenants/".
RoutedPublicPaths ==
    { <<"accounts", "register">>,
      <<"accounts", "login">>,
      <<"accounts", "logout">>,
      <<"tenants", "invitations", "tok", "accept">> }

\* The path at which TenantSelectView is routed.
TenantSelectPath == <<"tenants">>

\* ------------------------------------------------------------------ state

VARIABLES
    tenants,          \* Tenant rows: id -> "absent" | "active" | "inactive"
    members,          \* TenantUser rows
    session,          \* request.session["tenant_id"] of each user's session
    current_tenant,   \* CustomUser.current_tenant
    records,          \* rows of one TenantAwareModel subclass, by id
    thread_locals,    \* _thread_locals: slot -> [tenant, user]
    pc,               \* where each thread is inside TenantMiddleware.__call__
    request,          \* the request each thread is handling
    found,            \* what a request found in its slot on entry (history)
    qs,               \* the last queryset a handler evaluated, as record ids
    saved,            \* outcome of the last save() a handler performed
    removing,         \* remove_member: the member row a request is about to deactivate
    invitations,      \* TenantInvitation rows
    pending,          \* the view or call in progress on a thread, and how it ended
    audit_log,        \* TenantAuditLog rows, in the order written
    sink_ok,          \* FALSE while writes to the audit table fail
    assignments,      \* fleet.VehicleAssignment rows
    logged_in         \* the users whose session holds a login

dbVars == <<tenants, members, session, current_tenant, records, invitations>>
mwVars == <<thread_locals, pc, request, found>>
hVars == <<qs, saved, removing, pending>>
envVars == <<sink_ok, assignments, logged_in>>
vars == <<tenants, members, session, current_tenant, records,
          thread_locals, pc, request, found, qs, saved, removing,
          invitations, pending, audit_log, sink_ok, assignments,
          logged_in>>

NoRequest == [user |-> Anon, host |-> None, header |-> None, path |-> <<>>,
              tenant |-> None, via |-> None]
EmptyLocals == [tenant |-> None, user |-> None]
NoRecord == [stored |-> FALSE, tenant |-> None, created_by |-> None, updated_by |-> None]
NoQuery == [kind |-> None, ids |-> {}]
NoSave == [id |-> 0, is_new |-> FALSE, tenant |-> None, context |-> None,
           force_insert |-> FALSE, skip_tenant_check |-> FALSE, outcome |-> None]
NoRemoval == [user |-> None, tenant |-> None, step |-> None]
NoPending == [op |-> None, tenant |-> None, user |-> None, email |-> None,
              role |-> None, is_owner |-> FALSE, inv |-> 0, outcome |-> None]

\* ------------------------------------------------------- thread-local context

\* A module-level object shared by all threads, for comparison with Local.
SharedSlot(th) == "th1"

\* threading.local(): every thread reads and writes its own slot.
Local(th) == th

set_current_tenant(store, th, tenant) ==
    [store EXCEPT ![Local(th)].tenant = tenant]

set_current_user(store, th, user) ==
    [store EXCEPT ![Local(th)].user = user]

get_current_tenant(th) == thread_locals[Local(th)].tenant

get_current_user(th) == thread_locals[Local(th)].user

\* A clear that leaves the slot as it is, for comparison.
no_clear(store, th) == store

\* hasattr/del of tenant and user on _thread_locals.
clear_thread_locals(store, th) ==
    [store EXCEPT ![Local(th)] = EmptyLocals]

\* ---------------------------------------------------------------- membership

role_permissions(role) ==
    CASE role = "owner" -> {"all"}
      [] role = "admin" -> {"read", "write", "delete", "invite"}
      [] role = "manager" -> {"read", "write", "invite"}
      [] role = "user" -> {"read", "write"}
      [] role = "viewer" -> {"read"}
      [] OTHER -> {}

get_permissions(m) == role_permissions(m.role) \cup m.permissions

\* self.tenant_memberships.get(tenant=tenant, is_active=True)
ActiveMemberships(u, t) ==
    {m \in members : m.user = u /\ m.tenant = t /\ m.is_active}

has_tenant_permission(u, t, permission) ==
    IF is_superuser(u) THEN TRUE
    ELSE IF ActiveMemberships(u, t) = {} THEN FALSE
    ELSE IF permission # None
         THEN \E m \in ActiveMemberships(u, t) : permission \in get_permissions(m)
         ELSE TRUE

\* ---------------------------------------------------------------- resolution

Lower(s) ==
    CASE s = "A" -> "a"
      [] s = "B" -> "b"
      [] OTHER -> s

\* request.get_host().split(":")[0].lower().split(".")
HostParts(host) == [i \in DOMAIN host.labels |-> Lower(host.labels[i])]

ReservedSubdomains == {"www", "api", "admin", "static"}

\* Tenant.objects.get(slug=..., is_active=True); None stands for DoesNotExist
ActiveBySlug(slug) ==
    IF \E t \in TenantIds : tenants[t] = "active" /\ Slug(t) = slug
    THEN CHOOSE t \in TenantIds : tenants[t] = "active" /\ Slug(t) = slug
    ELSE None

\* Tenant.objects.get(id=..., is_active=True); None stands for DoesNotExist
ActiveById(id) ==
    IF id \in TenantIds /\ tenants[id] = "active" THEN id ELSE None

get_tenant_from_subdomain(host) ==
    LET parts == HostParts(host)
    IN  IF Len(parts) > 2 /\ parts[1] \notin ReservedSubdomains
        THEN ActiveBySlug(parts[1])
        ELSE None

get_tenant_from_header(header) ==
    IF header # None THEN ActiveById(header) ELSE None

\* A session lookup without the except branch's "del", for comparison.
session_keeps_stale(tenant_id) ==
    [tenant |-> IF tenant_id # None THEN ActiveById(tenant_id) ELSE None,
     tenant_id |-> tenant_id]

\* The tenant found and the session's tenant_id afterwards.
get_tenant_from_session(tenant_id) ==
    IF tenant_id # None
    THEN IF ActiveById(tenant_id) # None
         THEN [tenant |-> tenant_id, tenant_id |-> tenant_id]
         ELSE [tenant |-> None, tenant_id |-> None]
    ELSE [tenant |-> None, tenant_id |-> None]

get_tenant_from_user(u) == current_tenant[u]

\* The chain with header and subdomain in the other order, for comparison.
header_first(user, host, header, tenant_id) ==
    LET s1 == get_tenant_from_header(header)
        s2 == get_tenant_from_subdomain(host)
        s3 == get_tenant_from_session(tenant_id)
        s4 == get_tenant_from_user(user)
    IN  IF s1 # None
        THEN [tenant |-> s1, via |-> "header", tenant_id |-> tenant_id]
        ELSE IF s2 # None
        THEN [tenant |-> s2, via |-> "subdomain", tenant_id |-> tenant_id]
        ELSE IF ~is_authenticated(user)
        THEN [tenant |-> None, via |-> None, tenant_id |-> tenant_id]
        ELSE IF s3.tenant # None
        THEN [tenant |-> s3.tenant, via |-> "session", tenant_id |-> s3.tenant_id]
        ELSE IF s4 # None
        THEN [tenant |-> s4, via |-> "user", tenant_id |-> s3.tenant_id]
        ELSE [tenant |-> None, via |-> None, tenant_id |-> s3.tenant_id]

\* The tenant, the strategy that yielded it and the session's tenant_id left
\* behind.  tenant_id is the session value of the requesting user.  s3 and s4
\* are only looked at where the code evaluates them.
get_tenant(user, host, header, tenant_id) ==
    LET s1 == get_tenant_from_subdomain(host)
        s2 == get_tenant_from_header(header)
        s3 == get_tenant_from_session(tenant_id)
        s4 == get_tenant_from_user(user)
    IN  IF s1 # None
        THEN [tenant |-> s1, via |-> "subdomain", tenant_id |-> tenant_id]
        ELSE IF s2 # None
        THEN [tenant |-> s2, via |-> "header", tenant_id |-> tenant_id]
        ELSE IF ~is_authenticated(user)
        THEN [tenant |-> None, via |-> None, tenant_id |-> tenant_id]
        ELSE IF s3.tenant # None
        THEN [tenant |-> s3.tenant, via |-> "session", tenant_id |-> s3.tenant_id]
        ELSE IF s4 # None
        THEN [tenant |-> s4, via |-> "user", tenant_id |-> s3.tenant_id]
        ELSE [tenant |-> None, via |-> None, tenant_id |-> s3.tenant_id]

public_paths ==
    { <<"auth", "login">>, <<"auth", "register">>, <<"auth", "logout">>,
      <<"invitations", "accept">>, <<"api", "health">> }

\* request.path.startswith(p): every path and every prefix ends with "/", so
\* a string prefix is a prefix of the segment sequence.
StartsWith(path, p) ==
    Len(p) <= Len(path) /\ \A i \in 1..Len(p) : path[i] = p[i]

is_public_route(path) == \E p \in public_paths : StartsWith(path, p)

\* A validation that ignores the public routes, for comparison.
deny_on_public_too(user, path, tenant) ==
    ~has_tenant_permission(user, tenant, None)

\* TRUE when validate_tenant_access raises PermissionDenied
validate_tenant_access(user, path, tenant) ==
    ~has_tenant_permission(user, tenant, None) /\ ~is_public_route(path)

\* ------------------------------------------------ TenantMiddleware.__call__

SessionOf(user) == IF is_authenticated(user) THEN session[user] ELSE None

\* Lines 43-56: clear, resolve, publish the tenant, validate access.  A
\* PermissionDenied leaves __call__ at once (pc "denied").
Call_Resolve(th, user, host, header, path) ==
    /\ pc[th] = "idle"
    /\ LET r == get_tenant(user, host, header, SessionOf(user))
           cleared == clear_thread_locals(thread_locals, th)
           published == IF r.tenant # None
                        THEN set_current_tenant(cleared, th, r.tenant)
                        ELSE cleared
           denied == /\ r.tenant # None
                     /\ is_authenticated(user)
                     /\ ~is_superuser(user)
                     /\ validate_tenant_access(user, path, r.tenant)
       IN  /\ found' = [found EXCEPT ![th] = thread_locals[Local(th)]]
           /\ thread_locals' = published
           /\ session' = IF is_authenticated(user)
                         THEN [session EXCEPT ![user] = r.tenant_id]
                         ELSE session
           /\ request' = [request EXCEPT ![th] =
                            [user |-> user, host |-> host, header |-> header,
                             path |-> path, tenant |-> r.tenant, via |-> r.via]]
           /\ pc' = [pc EXCEPT ![th] = IF denied THEN "denied" ELSE "resolved"]
    /\ UNCHANGED <<tenants, members, current_tenant, records, invitations,
                   qs, saved, removing, pending,
                   audit_log, envVars>>

\* Lines 58-62: publish the user, then call the handler.
Call_SetUser(th) ==
    /\ pc[th] = "resolved"
    /\ thread_locals' = IF request[th].user # Anon
                        THEN set_current_user(thread_locals, th, request[th].user)
                        ELSE thread_locals
    /\ pc' = [pc EXCEPT ![th] = "handling"]
    /\ UNCHANGED <<dbVars, request, found, hVars,
                   audit_log, envVars>>

EndRequest(th) ==
    /\ pc' = [pc EXCEPT ![th] = "idle"]
    /\ request' = [request EXCEPT ![th] = NoRequest]
    /\ found' = [found EXCEPT ![th] = EmptyLocals]
    /\ qs' = [qs EXCEPT ![th] = NoQuery]
    /\ saved' = [saved EXCEPT ![th] = NoSave]
    /\ removing' = [removing EXCEPT ![th] = NoRemoval]
    /\ pending' = [pending EXCEPT ![th] = NoPending]

\* Lines 62-67: get_response returned a response (the handler's own, or the
\* error response the framework made of the handler's exception).
Call_Return(th) ==
    /\ pc[th] = "handling"
    /\ thread_locals' = clear_thread_locals(thread_locals, th)
    /\ EndRequest(th)
    /\ UNCHANGED <<dbVars, audit_log, envVars>>

\* Line 62: get_response raised (the exception was not turned into a response,
\* as under DEBUG_PROPAGATE_EXCEPTIONS); lines 64-67 do not run.
Call_HandlerRaises(th) ==
    /\ pc[th] = "handling"
    /\ EndRequest(th)
    /\ UNCHANGED <<dbVars, thread_locals,
                   audit_log, envVars>>

\* Line 144: PermissionDenied leaves __call__; lines 58-67 do not run.
Call_Denied(th) ==
    /\ pc[th] = "denied"
    /\ EndRequest(th)
    /\ UNCHANGED <<dbVars, thread_locals,
                   audit_log, envVars>>

\* ------------------------------------------------------------------- views

\* TenantUser(...): a row not yet inserted (id 0), with the field defaults.
NewMember(u, t, role, is_owner) ==
    [id |-> 0, user |-> u, tenant |-> t, role |-> role, is_owner |-> is_owner,
     is_active |-> TRUE, permissions |-> {}]

\* A table without the unique index, for comparison.
no_unique_constraint(rows, u, t) == FALSE

\* Meta.unique_together = ["user", "tenant"]: TRUE when an INSERT of (u, t)
\* is rejected with IntegrityError.
unique_together_violated(rows, u, t) ==
    \E m \in rows : m.user = u /\ m.tenant = t

\* TenantUser.objects.create(...): the table after the INSERT; unchanged when
\* the INSERT raises IntegrityError.
TenantUser_create(rows, m) ==
    IF unique_together_violated(rows, m.user, m.tenant)
    THEN rows
    ELSE rows \cup {[m EXCEPT !.id = Cardinality(rows) + 1]}

\* The post_save receiver log_member_change: the audit table after the rows
\* of "after" not in "before" were inserted while user is in the context.  A
\* failing write is caught and logged, and leaves the table as it was.
log_member_change(log, before, after, user) ==
    IF after = before \/ ~sink_ok
    THEN log
    ELSE LET m == CHOOSE m \in after \ before : TRUE
         IN  Append(log, [tenant |-> m.tenant, user |-> user,
                          action |-> "add_member", model_name |-> "TenantUser"])

\* An add_member that writes its arguments over an existing row and makes it
\* active again (update_or_create), for comparison.
add_member_update_or_create(rows, t, u, role, is_owner) ==
    IF \E m \in rows : m.user = u /\ m.tenant = t
    THEN {IF m.user = u /\ m.tenant = t
          THEN [m EXCEPT !.role = role, !.is_owner = is_owner, !.is_active = TRUE]
          ELSE m : m \in rows}
    ELSE rows \cup {[id |-> Cardinality(rows) + 1, user |-> u, tenant |-> t,
                     role |-> role, is_owner |-> is_owner, is_active |-> TRUE,
                     permissions |-> {}]}

\* Tenant.add_member: TenantUser.objects.get_or_create(tenant, user, defaults)
add_member(rows, t, u, role, is_owner) ==
    IF \E m \in rows : m.user = u /\ m.tenant = t
    THEN rows
    ELSE TenantUser_create(rows, NewMember(u, t, role, is_owner))

\* TenantSelectView.post
TenantSelect_post(th, tenant_id) ==
    /\ pc[th] = "handling"
    /\ is_authenticated(request[th].user)
    /\ ActiveById(tenant_id) # None
    /\ has_tenant_permission(request[th].user, tenant_id, None)
    /\ session' = [session EXCEPT ![request[th].user] = tenant_id]
    /\ current_tenant' = [current_tenant EXCEPT ![request[th].user] = tenant_id]
    /\ UNCHANGED <<tenants, members, records, invitations, mwVars, hVars,
                   audit_log, envVars>>

\* A creation that stores the tenant and no membership, for comparison.
TenantCreate_without_owner(th, t) ==
    /\ pc[th] = "handling"
    /\ is_authenticated(request[th].user)
    /\ tenants[t] = "absent"
    /\ tenants' = [tenants EXCEPT ![t] = "active"]
    /\ session' = [session EXCEPT ![request[th].user] = t]
    /\ current_tenant' = [current_tenant EXCEPT ![request[th].user] = t]
    /\ UNCHANGED <<members, records, invitations, mwVars, hVars,
                   audit_log, envVars>>

\* TenantCreateView.form_valid (transaction.atomic), with the post_save
\* receiver create_owner_membership that Tenant.save() triggers.
TenantCreate_form_valid(th, t) ==
    /\ pc[th] = "handling"
    /\ is_authenticated(request[th].user)
    /\ tenants[t] = "absent"
    /\ get_current_user(th) # None
    /\ tenants' = [tenants EXCEPT ![t] = "active"]
    /\ members' = add_member(
                     TenantUser_create(members,
                                       NewMember(get_current_user(th), t, "owner", TRUE)),
                     t, request[th].user, "owner", TRUE)
    /\ audit_log' = log_member_change(audit_log, members, members',
                                      get_current_user(th))
    /\ session' = [session EXCEPT ![request[th].user] = t]
    /\ current_tenant' = [current_tenant EXCEPT ![request[th].user] = t]
    /\ UNCHANGED <<records, invitations, mwVars, hVars, envVars>>

\* Tenant.add_member called for an existing tenant.
AddMember(t, u, role, is_owner) ==
    /\ tenants[t] # "absent"
    /\ members' = add_member(members, t, u, role, is_owner)
    /\ members' # members
    /\ audit_log' = log_member_change(audit_log, members, members', None)
    /\ UNCHANGED <<tenants, session, current_tenant, records, invitations, mwVars, hVars, envVars>>

\* The admin's Tenant change form: is_active unticked.
Deactivate(t) ==
    /\ tenants[t] = "active"
    /\ tenants' = [tenants EXCEPT ![t] = "inactive"]
    /\ UNCHANGED <<members, session, current_tenant, records, invitations, mwVars, hVars,
                   audit_log, envVars>>

\* remove_member, up to the last-owner check (lines 284-314).  The decorators
\* and the view each require the requester to be an active owner; the check
\* reads the other active owners and the write comes in a later statement.
IsActiveOwner(u, t) ==
    \E m \in members : m.user = u /\ m.tenant = t /\ m.is_active /\ m.is_owner

other_owners(member) ==
    \E m \in members :
        /\ m.tenant = member.tenant
        /\ m.is_owner
        /\ m.is_active
        /\ m.user # member.user

remove_member_check(th, tenant_id, user_id) ==
    /\ pc[th] = "handling"
    /\ removing[th] = NoRemoval
    /\ is_authenticated(request[th].user)
    /\ request[th].tenant # None
    /\ IsActiveOwner(request[th].user, request[th].tenant)
    /\ ActiveById(tenant_id) # None
    /\ IsActiveOwner(request[th].user, tenant_id)
    /\ \E member \in members :
        /\ member.user = user_id
        /\ member.tenant = tenant_id
        /\ removing' = [removing EXCEPT ![th] =
                          [user |-> user_id, tenant |-> tenant_id,
                           step |-> IF member.is_owner /\ ~other_owners(member)
                                    THEN "refused" ELSE "checked"]]
    /\ UNCHANGED <<dbVars, mwVars, qs, saved, pending,
                   audit_log, envVars>>

\* A removal that also takes the tenant out of the removed user's session
\* and current_tenant, for comparison.
remove_member_and_deselect(th) ==
    /\ pc[th] = "handling"
    /\ removing[th].step = "checked"
    /\ members' = {IF m.user = removing[th].user /\ m.tenant = removing[th].tenant
                   THEN [m EXCEPT !.is_active = FALSE] ELSE m : m \in members}
    /\ removing' = [removing EXCEPT ![th].step = "removed"]
    /\ session' = [session EXCEPT ![removing[th].user] = None]
    /\ current_tenant' = [current_tenant EXCEPT ![removing[th].user] = None]
    /\ UNCHANGED <<tenants, records, invitations, mwVars, qs, saved, pending,
                   audit_log, envVars>>

\* remove_member, lines 317-321: member.is_active = False;
\* member.save(update_fields=["is_active"])
remove_member_post(th) ==
    /\ pc[th] = "handling"
    /\ removing[th].step = "checked"
    /\ members' = {IF m.user = removing[th].user /\ m.tenant = removing[th].tenant
                   THEN [m EXCEPT !.is_active = FALSE] ELSE m : m \in members}
    /\ removing' = [removing EXCEPT ![th].step = "removed"]
    /\ UNCHANGED <<tenants, session, current_tenant, records, invitations,
                   mwVars, qs, saved, pending,
                   audit_log, envVars>>

\* Tenant.add_member as its two database statements: the SELECT of
\* get_or_create, and the INSERT that follows a miss.
add_member_get(th, t, u, role, is_owner) ==
    /\ pc[th] = "handling"
    /\ pending[th] = NoPending
    /\ tenants[t] # "absent"
    /\ pending' = [pending EXCEPT ![th] =
                     [NoPending EXCEPT !.op = "add_member", !.tenant = t, !.user = u,
                                       !.role = role, !.is_owner = is_owner,
                                       !.outcome = IF \E m \in members :
                                                        m.user = u /\ m.tenant = t
                                                   THEN "found" ELSE "missing"]]
    /\ UNCHANGED <<dbVars, mwVars, qs, saved, removing,
                   audit_log, envVars>>

\* The INSERT of get_or_create; on IntegrityError it selects the existing row.
add_member_create(th) ==
    /\ pc[th] = "handling"
    /\ pending[th].op = "add_member"
    /\ pending[th].outcome = "missing"
    /\ members' = TenantUser_create(members,
                                    NewMember(pending[th].user, pending[th].tenant,
                                              pending[th].role, pending[th].is_owner))
    /\ audit_log' = log_member_change(audit_log, members, members',
                                      get_current_user(th))
    /\ pending' = [pending EXCEPT ![th].outcome =
                     IF members' = members THEN "conflict" ELSE "created"]
    /\ UNCHANGED <<tenants, session, current_tenant, records, invitations,
                   mwVars, qs, saved, removing, envVars>>

\* Tenant.add_member called in one piece by a handler, and the membership it
\* returns left to be read in the table.
add_member_call(th, t, u, role, is_owner) ==
    /\ pc[th] = "handling"
    /\ pending[th] = NoPending
    /\ tenants[t] # "absent"
    /\ members' = add_member(members, t, u, role, is_owner)
    /\ audit_log' = log_member_change(audit_log, members, members',
                                      get_current_user(th))
    /\ pending' = [pending EXCEPT ![th] =
                     [NoPending EXCEPT !.op = "add_member_call", !.tenant = t,
                                       !.user = u, !.role = role,
                                       !.is_owner = is_owner,
                                       !.outcome = "returned"]]
    /\ UNCHANGED <<tenants, session, current_tenant, records, invitations,
                   mwVars, qs, saved, removing, envVars>>

\* -------------------------------------------------------------- invitations

\* CustomUser.email
Email(u) ==
    CASE u = "u1" -> "u1@example.com"
      [] u = "u2" -> "u2@example.com"
      [] OTHER -> "root@example.com"

\* CustomUser.objects.get(email=...); None stands for DoesNotExist
UserByEmail(email) ==
    IF \E u \in Users : Email(u) = email
    THEN CHOOSE u \in Users : Email(u) = email
    ELSE None

\* TenantUser.ROLE_CHOICES, by value
ROLE_CHOICES == <<"owner", "admin", "manager", "user", "viewer">>

\* TenantInvitation.ROLE_CHOICES = TenantUser.ROLE_CHOICES[:1]
TenantInvitation_ROLE_CHOICES == SubSeq(ROLE_CHOICES, 1, 1)

Choices(choices) == {choices[i] : i \in DOMAIN choices}

\* Largest number of TenantInvitation rows the model stores.
MaxInvitations == 2

\* id = UUIDField(primary_key=True, default=uuid.uuid4): "not self.pk" is
\* false for an invitation that was never saved.
invitation_pk_unset == FALSE

\* A validity test that every invitation passes, for comparison.
always_valid(inv) == TRUE

\* TenantInvitation.is_valid: accepted_at is None and expires_at > now
is_valid(inv) == ~inv.accepted /\ ~inv.expired

\* TenantInvitation.clean: TRUE when it raises ValidationError
TenantInvitation_clean(t, email) ==
    LET user == UserByEmail(email)
    IN  \/ /\ user # None
           /\ \E m \in members : m.user = user /\ m.tenant = t /\ m.is_active
        \/ /\ invitation_pk_unset
           /\ \E i \in invitations : i.tenant = t /\ i.email = email /\ is_valid(i)

\* invitation.full_clean(): the role's choices, then clean().  TRUE when it
\* raises ValidationError.
full_clean(t, email, role) ==
    \/ role \notin Choices(TenantInvitation_ROLE_CHOICES)
    \/ TenantInvitation_clean(t, email)

\* invite_user up to invitation.full_clean(), with its decorators
\* login_required, tenant_required and tenant_owner_required.
invite_user_clean(th, email, role) ==
    /\ pc[th] = "handling"
    /\ pending[th] = NoPending
    /\ is_authenticated(request[th].user)
    /\ pending' = [pending EXCEPT ![th] =
          [NoPending EXCEPT
              !.op = "invite", !.tenant = request[th].tenant,
              !.user = request[th].user, !.email = email, !.role = role,
              !.outcome =
                  IF request[th].tenant = None THEN "redirect"
                  ELSE IF ~IsActiveOwner(request[th].user, request[th].tenant)
                  THEN "PermissionDenied"
                  ELSE IF full_clean(request[th].tenant, email, role)
                  THEN "ValidationError"
                  ELSE "validated"]]
    /\ UNCHANGED <<dbVars, mwVars, qs, saved, removing,
                   audit_log, envVars>>

\* invite_user, line 227: invitation.save()
invite_user_save(th) ==
    /\ pc[th] = "handling"
    /\ pending[th].op = "invite"
    /\ pending[th].outcome = "validated"
    /\ Cardinality(invitations) < MaxInvitations
    /\ invitations' = invitations \cup
          {[id |-> Cardinality(invitations) + 1, tenant |-> pending[th].tenant,
            email |-> pending[th].email, role |-> pending[th].role,
            invited_by |-> pending[th].user, expired |-> FALSE,
            accepted |-> FALSE, accepted_by |-> None]}
    /\ pending' = [pending EXCEPT ![th].outcome = "saved"]
    /\ UNCHANGED <<tenants, members, session, current_tenant, records,
                   mwVars, qs, saved, removing,
                   audit_log, envVars>>

\* Time passes expires_at of a pending invitation.
Expire(id) ==
    /\ \E inv \in invitations :
          /\ inv.id = id
          /\ is_valid(inv)
          /\ invitations' = (invitations \ {inv}) \cup {[inv EXCEPT !.expired = TRUE]}
    /\ UNCHANGED <<tenants, members, session, current_tenant, records, mwVars, hVars,
                   audit_log, envVars>>

\* accept_invitation, lines 249-258: the invitation is loaded by its token
\* and looked at once outside the transaction.
accept_invitation_get(th, id) ==
    /\ pc[th] = "handling"
    /\ pending[th] = NoPending
    /\ is_authenticated(request[th].user)
    /\ \E inv \in invitations :
          /\ inv.id = id
          /\ pending' = [pending EXCEPT ![th] =
                [NoPending EXCEPT
                    !.op = "accept", !.inv = id, !.tenant = inv.tenant,
                    !.user = request[th].user, !.email = inv.email,
                    !.role = inv.role,
                    !.outcome = IF ~is_valid(inv) THEN "invalid"
                                ELSE IF Email(request[th].user) # inv.email
                                THEN "wrong_email"
                                ELSE "loaded"]]
    /\ UNCHANGED <<dbVars, mwVars, qs, saved, removing,
                   audit_log, envVars>>

\* An accept that stamps the invitation and creates no membership, for
\* comparison.
accept_without_membership(invs, rows, inv, user) ==
    [invitations |-> (invs \ {inv}) \cup
                        {[inv EXCEPT !.accepted = TRUE, !.accepted_by = user]},
     members |-> rows,
     outcome |-> "accepted"]

\* TenantInvitation.accept on the instance inv (as loaded: not accepted) by
\* user: the tables as its statements leave them, and how it ended.
accept(invs, rows, inv, user) ==
    IF ~is_valid(inv) \/ Email(user) # inv.email
    THEN [invitations |-> invs, members |-> rows, outcome |-> "ValueError"]
    ELSE LET stamped == (invs \ {inv}) \cup
                           {[inv EXCEPT !.accepted = TRUE, !.accepted_by = user]}
             created == TenantUser_create(rows, NewMember(user, inv.tenant, inv.role, FALSE))
         IN  [invitations |-> stamped,
              members |-> created,
              outcome |-> IF created = rows THEN "IntegrityError" ELSE "accepted"]

\* accept_invitation, lines 260-275: invitation.accept and the switch to the
\* tenant inside transaction.atomic(); an exception rolls every write back.
\* The instance in hand is the one loaded before: it is valid unless its
\* expires_at has passed meanwhile.
accept_invitation_atomic(th) ==
    /\ pc[th] = "handling"
    /\ pending[th].op = "accept"
    /\ pending[th].outcome = "loaded"
    /\ \E row \in invitations :
          /\ row.id = pending[th].inv
          /\ LET inv == [row EXCEPT !.accepted = FALSE, !.accepted_by = None]
                 r == accept((invitations \ {row}) \cup {inv}, members, inv,
                             pending[th].user)
                 committed == r.outcome = "accepted"
             IN  /\ invitations' = IF committed THEN r.invitations ELSE invitations
                 /\ members' = IF committed THEN r.members ELSE members
                 /\ audit_log' = log_member_change(audit_log, members, members',
                                                   get_current_user(th))
                 /\ session' = IF committed
                               THEN [session EXCEPT ![pending[th].user] = inv.tenant]
                               ELSE session
                 /\ current_tenant' =
                        IF committed
                        THEN [current_tenant EXCEPT ![pending[th].user] = inv.tenant]
                        ELSE current_tenant
                 /\ pending' = [pending EXCEPT ![th].outcome = r.outcome]
    /\ UNCHANGED <<tenants, records, mwVars, qs, saved, removing, envVars>>

\* --------------------------------------------------- tenant-scoped records

Stored == {i \in RecordIds : records[i].stored}

\* core/models.py imports get_current_tenant from core.middleware, a module
\* that is not among the sources: it is taken to read the request's context.
core_get_current_tenant(th) == thread_locals[Local(th)].tenant

FilterTenant(ids, tenant) == {i \in ids : records[i].tenant = tenant}

\* A manager that never filters, for comparison.
unfiltered_get_queryset(th) == Stored

\* A manager that returns nothing while the context holds no tenant, for
\* comparison.
empty_without_tenant(th) ==
    LET tenant == core_get_current_tenant(th)
    IN  IF tenant # None THEN FilterTenant(Stored, tenant) ELSE {}

\* TenantAwareManager.get_queryset
TenantAwareManager_get_queryset(th) ==
    LET tenant == core_get_current_tenant(th)
    IN  IF tenant # None THEN FilterTenant(Stored, tenant) ELSE Stored

TenantAwareManager_for_tenant(tenant) == FilterTenant(Stored, tenant)

TenantAwareManager_all_tenants == Stored

all_objects == Stored

TenantAwareQuerysetMixin_get_queryset(th) ==
    LET queryset == TenantAwareManager_get_queryset(th)
    IN  IF request[th].tenant # None
        THEN FilterTenant(queryset, request[th].tenant)
        ELSE queryset

ReadKinds == {"objects", "view", "for_tenant", "all_tenants", "all_objects"}

Handler_Read(th, kind, tenant) ==
    /\ pc[th] = "handling"
    /\ qs' = [qs EXCEPT ![th] =
                [kind |-> kind,
                 ids |-> CASE kind = "objects" -> TenantAwareManager_get_queryset(th)
                           [] kind = "view" -> TenantAwareQuerysetMixin_get_queryset(th)
                           [] kind = "for_tenant" -> TenantAwareManager_for_tenant(tenant)
                           [] kind = "all_tenants" -> TenantAwareManager_all_tenants
                           [] OTHER -> all_objects]]
    /\ saved' = [saved EXCEPT ![th] = NoSave]
    /\ UNCHANGED <<dbVars, mwVars, removing, pending,
                   audit_log, envVars>>

\* id = UUIDField(primary_key=True, default=uuid.uuid4): an instance has its
\* pk from construction on, so "not self.pk" is false also for a new one.
pk_unset(is_new) == FALSE

NextId == CHOOSE i \in RecordIds : i \notin Stored /\ \A j \in RecordIds : j < i => j \in Stored

\* A save that writes the context's tenant over the instance's own, for
\* comparison.
save_overwrites_tenant(th, instance, is_new, force_insert, skip_tenant_check) ==
    LET tenant == get_current_tenant(th)
    IN  IF tenant = None /\ instance.tenant = None /\ ~force_insert /\ ~skip_tenant_check
        THEN [outcome |-> "ValueError", row |-> NoRecord]
        ELSE IF ~is_new /\ force_insert
        THEN [outcome |-> "IntegrityError", row |-> NoRecord]
        ELSE [outcome |-> "saved",
              row |-> IF tenant # None THEN [instance EXCEPT !.tenant = tenant]
                      ELSE instance]

\* TenantAwareModel.save of a new instance (tenant as given, created_by and
\* updated_by unset) or of a stored one (is_new FALSE, as loaded).
\* The outcome and the row written, if any.
TenantAwareModel_save(th, instance, is_new, force_insert, skip_tenant_check) ==
    LET tenant == get_current_tenant(th)
        user == get_current_user(th)
        with_tenant == IF instance.tenant = None /\ tenant # None
                       THEN [instance EXCEPT !.tenant = tenant]
                       ELSE instance
        raises == /\ instance.tenant = None
                  /\ tenant = None
                  /\ ~force_insert
                  /\ ~skip_tenant_check
        stamped_c == IF user # None /\ is_authenticated(user) /\ pk_unset(is_new)
                        /\ with_tenant.created_by = None
                     THEN [with_tenant EXCEPT !.created_by = user]
                     ELSE with_tenant
        stamped == IF user # None /\ is_authenticated(user) /\ stamped_c.updated_by = None
                   THEN [stamped_c EXCEPT !.updated_by = user]
                   ELSE stamped_c
    IN  IF raises THEN [outcome |-> "ValueError", row |-> NoRecord]
        ELSE IF ~is_new /\ force_insert
        THEN [outcome |-> "IntegrityError", row |-> NoRecord]
        ELSE [outcome |-> "saved", row |-> stamped]

NewInstance(tenant) ==
    [stored |-> TRUE, tenant |-> tenant, created_by |-> None, updated_by |-> None]

Handler_SaveNew(th, tenant, force_insert, skip_tenant_check) ==
    /\ pc[th] = "handling"
    /\ Stored # RecordIds
    /\ LET r == TenantAwareModel_save(th, NewInstance(tenant), TRUE,
                                      force_insert, skip_tenant_check)
       IN  /\ records' = IF r.outcome = "saved"
                         THEN [records EXCEPT ![NextId] = r.row]
                         ELSE records
           /\ saved' = [saved EXCEPT ![th] =
                          [id |-> NextId, is_new |-> TRUE, tenant |-> tenant,
                           context |-> get_current_tenant(th),
                           force_insert |-> force_insert,
                           skip_tenant_check |-> skip_tenant_check,
                           outcome |-> r.outcome]]
    /\ qs' = [qs EXCEPT ![th] = NoQuery]
    /\ UNCHANGED <<tenants, members, session, current_tenant, invitations,
                   mwVars, removing, pending,
                   audit_log, envVars>>

Handler_SaveStored(th, i, force_insert, skip_tenant_check) ==
    /\ pc[th] = "handling"
    /\ i \in Stored
    /\ LET r == TenantAwareModel_save(th, records[i], FALSE,
                                      force_insert, skip_tenant_check)
       IN  /\ records' = IF r.outcome = "saved"
                         THEN [records EXCEPT ![i] = r.row]
                         ELSE records
           /\ saved' = [saved EXCEPT ![th] =
                          [id |-> i, is_new |-> FALSE, tenant |-> records[i].tenant,
                           context |-> get_current_tenant(th),
                           force_insert |-> force_insert,
                           skip_tenant_check |-> skip_tenant_check,
                           outcome |-> r.outcome]]
    /\ qs' = [qs EXCEPT ![th] = NoQuery]
    /\ UNCHANGED <<tenants, members, session, current_tenant, invitations,
                   mwVars, removing, pending,
                   audit_log, envVars>>

\* TenantAwareUpdateView on the record i: get_object reads through
\* get_queryset, then form_valid runs down TenantAwareViewMixin's bases
\* (TenantAwareCreateMixin, TenantAwareUpdateMixin, ModelFormMixin) and
\* saves.  TenantRequiredMixin lets it run only with a tenant on the request.
TenantAwareUpdateView_form_valid(th, i) ==
    /\ pc[th] = "handling"
    /\ is_authenticated(request[th].user)
    /\ request[th].tenant # None
    /\ i \in TenantAwareQuerysetMixin_get_queryset(th)
    /\ LET loaded == records[i]
           with_tenant == [loaded EXCEPT !.tenant = request[th].tenant]
           with_creator == IF with_tenant.created_by = None
                           THEN [with_tenant EXCEPT !.created_by = request[th].user]
                           ELSE with_tenant
           instance == IF with_creator.updated_by = None
                       THEN [with_creator EXCEPT !.updated_by = request[th].user]
                       ELSE with_creator
           r == TenantAwareModel_save(th, instance, FALSE, FALSE, FALSE)
       IN  /\ records' = IF r.outcome = "saved"
                         THEN [records EXCEPT ![i] = r.row]
                         ELSE records
           /\ saved' = [saved EXCEPT ![th] =
                          [id |-> i, is_new |-> FALSE, tenant |-> instance.tenant,
                           context |-> get_current_tenant(th),
                           force_insert |-> FALSE,
                           skip_tenant_check |-> FALSE,
                           outcome |-> r.outcome]]
    /\ qs' = [qs EXCEPT ![th] = NoQuery]
    /\ UNCHANGED <<tenants, members, session, current_tenant, invitations,
                   mwVars, removing, pending, audit_log, envVars>>

\* clone_for_tenant(obj, target_tenant, exclude_fields) on the stored record
\* i.  The copy takes every field not excluded, then the target tenant, and
\* is saved as a new instance with skip_tenant_check.  With "id" excluded
\* (the default) it gets a fresh pk; with an exclude list that keeps "id" it
\* carries the pk of obj, and the INSERT of a new instance whose pk has a
\* default meets the stored row: IntegrityError.
clone_for_tenant(th, i, target_tenant, exclude_id) ==
    /\ pc[th] = "handling"
    /\ i \in Stored
    /\ Stored # RecordIds
    /\ LET data == [records[i] EXCEPT !.tenant = target_tenant]
           r == IF exclude_id
                THEN TenantAwareModel_save(th, data, TRUE, FALSE, TRUE)
                ELSE [outcome |-> "IntegrityError", row |-> NoRecord]
       IN  /\ records' = IF r.outcome = "saved"
                         THEN [records EXCEPT ![NextId] = r.row]
                         ELSE records
           /\ saved' = [saved EXCEPT ![th] =
                          [id |-> IF exclude_id THEN NextId ELSE i,
                           is_new |-> TRUE, tenant |-> target_tenant,
                           context |-> get_current_tenant(th),
                           force_insert |-> FALSE,
                           skip_tenant_check |-> TRUE,
                           outcome |-> r.outcome]]
    /\ qs' = [qs EXCEPT ![th] = NoQuery]
    /\ UNCHANGED <<tenants, members, session, current_tenant, invitations,
                   mwVars, removing, pending, audit_log, envVars>>

\* ------------------------------------------------------------------ audit

\* Largest number of TenantAuditLog rows at which the model still logs users
\* in and out.
MaxAudit == 3

\* The audit table stops and resumes taking writes.
SinkFails ==
    /\ sink_ok
    /\ sink_ok' = FALSE
    /\ UNCHANGED <<dbVars, mwVars, hVars, audit_log, assignments, logged_in>>

SinkRecovers ==
    /\ ~sink_ok
    /\ sink_ok' = TRUE
    /\ UNCHANGED <<dbVars, mwVars, hVars, audit_log, assignments, logged_in>>

\* LoginView.form_valid for the credentials of u: django.contrib.auth.login
\* puts the user on the request and in the session and then sends
\* user_logged_in; log_user_login writes the audit row when the request has
\* a tenant, outside any try.  Its exception leaves login() and the view,
\* and the session of an error response is not stored.
Login(th, u) ==
    /\ pc[th] = "handling"
    /\ pending[th] = NoPending
    /\ ~is_authenticated(request[th].user)
    /\ Len(audit_log) < MaxAudit
    /\ LET writes == request[th].tenant # None
           raises == writes /\ ~sink_ok
       IN  /\ request' = [request EXCEPT ![th].user = u]
           /\ audit_log' = IF writes /\ sink_ok
                           THEN Append(audit_log,
                                       [tenant |-> request[th].tenant, user |-> u,
                                        action |-> "login", model_name |-> "User"])
                           ELSE audit_log
           /\ logged_in' = IF raises THEN logged_in ELSE logged_in \cup {u}
           /\ pending' = [pending EXCEPT ![th] =
                 [NoPending EXCEPT !.op = "login", !.user = u,
                                   !.tenant = request[th].tenant,
                                   !.outcome = IF raises THEN "error"
                                               ELSE "logged_in"]]
    /\ UNCHANGED <<dbVars, thread_locals, pc, found, qs, saved, removing,
                   sink_ok, assignments>>

\* LogoutView: django.contrib.auth.logout sends user_logged_out first and
\* flushes the session after; log_user_logout writes the audit row when the
\* request has a tenant, outside any try.
Logout(th) ==
    /\ pc[th] = "handling"
    /\ pending[th] = NoPending
    /\ is_authenticated(request[th].user)
    /\ Len(audit_log) < MaxAudit
    /\ LET user == request[th].user
           writes == request[th].tenant # None
           raises == writes /\ ~sink_ok
       IN  /\ audit_log' = IF writes /\ sink_ok
                           THEN Append(audit_log,
                                       [tenant |-> request[th].tenant, user |-> user,
                                        action |-> "logout", model_name |-> "User"])
                           ELSE audit_log
           /\ logged_in' = IF raises THEN logged_in ELSE logged_in \ {user}
           /\ pending' = [pending EXCEPT ![th] =
                 [NoPending EXCEPT !.op = "logout", !.user = user,
                                   !.tenant = request[th].tenant,
                                   !.outcome = IF raises THEN "error"
                                               ELSE "logged_out"]]
    /\ UNCHANGED <<dbVars, mwVars, qs, saved, removing, sink_ok, assignments>>

\* ------------------------------------------------------ fleet assignments

\* Vehicle and Employee (driver) rows, and the tenant each belongs to.
Vehicles == {"v1", "v2"}

Drivers == {"d1", "d2"}

FleetTenant(x) == IF x \in {"v1", "d1"} THEN "A" ELSE "B"

\* Largest number of VehicleAssignment rows the model stores.
MaxAssignments == 2

\* VehicleAssignment.objects, the TenantAwareManager, over the rows given.
VehicleAssignment_objects(th, rows) ==
    LET tenant == core_get_current_tenant(th)
    IN  IF tenant # None THEN {a \in rows : a.tenant = tenant} ELSE rows

\* Vehicle.objects and Employee.objects under the context of th.
Fleet_objects(th, xs) ==
    LET tenant == core_get_current_tenant(th)
    IN  IF tenant # None THEN {x \in xs : FleetTenant(x) = tenant} ELSE xs

\* VehicleAssignment.save of instance: for an active one the two
\* filter(...).exclude(id=self.id).update(is_active=False, end_date=today)
\* statements, then TenantAwareModel.save.  The statements are not in a
\* transaction: what the updates wrote stays when the save raises.
VehicleAssignment_save(th, rows, instance, is_new) ==
    LET after_vehicle ==
            IF instance.is_active
            THEN {IF /\ a \in VehicleAssignment_objects(th, rows)
                     /\ a.vehicle = instance.vehicle
                     /\ a.is_active
                     /\ a.id # instance.id
                  THEN [a EXCEPT !.is_active = FALSE, !.end_date = TRUE]
                  ELSE a : a \in rows}
            ELSE rows
        after_driver ==
            IF instance.is_active
            THEN {IF /\ a \in VehicleAssignment_objects(th, after_vehicle)
                     /\ a.driver = instance.driver
                     /\ a.is_active
                     /\ a.id # instance.id
                  THEN [a EXCEPT !.is_active = FALSE, !.end_date = TRUE]
                  ELSE a : a \in after_vehicle}
            ELSE after_vehicle
        r == TenantAwareModel_save(th, [NoRecord EXCEPT !.stored = TRUE,
                                                         !.tenant = instance.tenant],
                                   is_new, FALSE, FALSE)
    IN  IF r.outcome = "saved"
        THEN {a \in after_driver : a.id # instance.id}
                 \cup {[instance EXCEPT !.tenant = r.row.tenant]}
        ELSE after_driver

NewAssignment(tenant, v, d, is_active) ==
    [id |-> Cardinality(assignments) + 1, tenant |-> tenant, vehicle |-> v,
     driver |-> d, is_active |-> is_active, end_date |-> FALSE]

HasActiveAssignment(x) ==
    \E a \in assignments : a.is_active /\ (a.vehicle = x \/ a.driver = x)

\* VehicleAssignmentCreateView: the form offers the request tenant's
\* vehicles and drivers that have no active assignment.
VehicleAssignmentCreateView_form_valid(th, v, d, is_active) ==
    /\ pc[th] = "handling"
    /\ is_authenticated(request[th].user)
    /\ request[th].tenant # None
    /\ Cardinality(assignments) < MaxAssignments
    /\ v \in Fleet_objects(th, Vehicles) /\ FleetTenant(v) = request[th].tenant
    /\ d \in Fleet_objects(th, Drivers) /\ FleetTenant(d) = request[th].tenant
    /\ ~HasActiveAssignment(v)
    /\ ~HasActiveAssignment(d)
    /\ assignments' = VehicleAssignment_save(
                          th, assignments,
                          NewAssignment(request[th].tenant, v, d, is_active), TRUE)
    /\ UNCHANGED <<dbVars, mwVars, hVars, audit_log, sink_ok, logged_in>>

\* VehicleAssignmentUpdateView on the assignment id: the form offers every
\* vehicle and every driver of the request's tenant, and is_active.
VehicleAssignmentUpdateView_form_valid(th, id, v, d, is_active) ==
    /\ pc[th] = "handling"
    /\ is_authenticated(request[th].user)
    /\ request[th].tenant # None
    /\ v \in Fleet_objects(th, Vehicles) /\ FleetTenant(v) = request[th].tenant
    /\ d \in Fleet_objects(th, Drivers) /\ FleetTenant(d) = request[th].tenant
    /\ \E a \in VehicleAssignment_objects(th, assignments) :
          /\ a.id = id
          /\ a.tenant = request[th].tenant
          /\ assignments' = VehicleAssignment_save(
                                th, assignments,
                                [a EXCEPT !.vehicle = v, !.driver = d,
                                          !.is_active = is_active,
                                          !.tenant = request[th].tenant],
                                FALSE)
    /\ UNCHANGED <<dbVars, mwVars, hVars, audit_log, sink_ok, logged_in>>

\* VehicleAssignmentEndView.form_valid: is_active off, end_date from the form.
VehicleAssignmentEndView_form_valid(th, id) ==
    /\ pc[th] = "handling"
    /\ is_authenticated(request[th].user)
    /\ request[th].tenant # None
    /\ \E a \in VehicleAssignment_objects(th, assignments) :
          /\ a.id = id
          /\ a.tenant = request[th].tenant
          /\ assignments' = VehicleAssignment_save(
                                th, assignments,
                                [a EXCEPT !.is_active = FALSE, !.end_date = TRUE,
                                          !.tenant = request[th].tenant],
                                FALSE)
    /\ UNCHANGED <<dbVars, mwVars, hVars, audit_log, sink_ok, logged_in>>

\* VehicleAssignment.end_assignment on an assignment read through objects.
end_assignment(th, id) ==
    /\ pc[th] = "handling"
    /\ \E a \in VehicleAssignment_objects(th, assignments) :
          /\ a.id = id
          /\ assignments' = VehicleAssignment_save(
                                th, assignments,
                                [a EXCEPT !.is_active = FALSE, !.end_date = TRUE],
                                FALSE)
    /\ UNCHANGED <<dbVars, mwVars, hVars, audit_log, sink_ok, logged_in>>

\* The admin's add form of VehicleAssignment, saved by
\* TenantAwareAdmin.save_model: the vehicle and driver choices come from the
\* default managers, the tenant is the request's or, for a superuser without
\* one, Tenant.objects.filter(is_active=True).first(): the active tenant
\* with the least (random) pk, here any active tenant.
VehicleAssignmentAdmin_save_model(th, v, d) ==
    /\ pc[th] = "handling"
    /\ is_superuser(request[th].user)
    /\ Cardinality(assignments) < MaxAssignments
    /\ v \in Fleet_objects(th, Vehicles)
    /\ d \in Fleet_objects(th, Drivers)
    /\ \E first_tenant \in TenantIds :
          /\ tenants[first_tenant] = "active"
          /\ request[th].tenant # None => first_tenant = request[th].tenant
          /\ assignments' = VehicleAssignment_save(
                                th, assignments,
                                NewAssignment(first_tenant, v, d, TRUE), TRUE)
    /\ UNCHANGED <<dbVars, mwVars, hVars, audit_log, sink_ok, logged_in>>

\* -------------------------------------------------------------------- init

Init ==
    /\ tenants = [t \in TenantIds |-> "absent"]
    /\ members = {}
    /\ session = [u \in Users |-> None]
    /\ current_tenant = [u \in Users |-> None]
    /\ records = [i \in RecordIds |-> NoRecord]
    /\ thread_locals = [th \in Threads |-> EmptyLocals]
    /\ pc = [th \in Threads |-> "idle"]
    /\ request = [th \in Threads |-> NoRequest]
    /\ found = [th \in Threads |-> EmptyLocals]
    /\ qs = [th \in Threads |-> NoQuery]
    /\ saved = [th \in Threads |-> NoSave]
    /\ removing = [th \in Threads |-> NoRemoval]
    /\ invitations = {}
    /\ pending = [th \in Threads |-> NoPending]
    /\ audit_log = <<>>
    /\ sink_ok = TRUE
    /\ assignments = {}
    /\ logged_in = {}

\* ------------------------------------------------------------ specifications

\* Resolution: one thread, every request shape, tenants created, selected
\* and deactivated in between.
Next ==
    \/ \E user \in Users \cup {Anon}, host \in Hosts, header \in Headers, path \in Paths :
          Call_Resolve("th1", user, host, header, path)
    \/ Call_SetUser("th1")
    \/ Call_Return("th1")
    \/ Call_Denied("th1")
    \/ \E t \in TenantIds :
          request["th1"].user = "u1" /\ TenantCreate_form_valid("th1", t)
    \/ \E t \in TenantIds : TenantSelect_post("th1", t)
    \/ \E t \in TenantIds : Deactivate(t)

Spec == Init /\ [][Next]_vars

\* Isolation: two threads handling requests at the same time.
PlainHost == [labels |-> <<"example", "com">>, port |-> FALSE]

NextIso ==
    \/ \E th \in Threads, user \in {"u1", "u2"}, header \in Headers :
          Call_Resolve(th, user, PlainHost, header, <<"dashboard">>)
    \/ \E th \in Threads : Call_SetUser(th)
    \/ \E th \in Threads : Call_Return(th)
    \/ \E th \in Threads : Call_HandlerRaises(th)
    \/ \E th \in Threads : Call_Denied(th)
    \/ \E th \in Threads, t \in TenantIds : TenantCreate_form_valid(th, t)

SpecIso == Init /\ [][NextIso]_vars

\* Requests to the routed public endpoints and to the dashboard, on the
\* subdomain of tenant A and on the bare domain.
SubdomainA == [labels |-> <<"a", "example", "com">>, port |-> FALSE]

NextRoutes ==
    \/ \E th \in Threads, user \in {"u1", "u2"}, host \in {SubdomainA, PlainHost},
          path \in RoutedPublicPaths \cup {<<"dashboard">>} :
          Call_Resolve(th, user, host, None, path)
    \/ \E th \in Threads : Call_SetUser(th)
    \/ \E th \in Threads : Call_Return(th)
    \/ \E th \in Threads : Call_Denied(th)
    \/ \E th \in Threads :
          request[th].user = "u1" /\ TenantCreate_form_valid(th, "A")

SpecRoutes == Init /\ [][NextRoutes]_vars

\* One worker: owner u1 of both tenants and superuser root manage the
\* vehicle assignments, through the views and through the admin.
NextFleet ==
    \/ \E user \in {"u1", "root"}, header \in Headers :
          Call_Resolve("th1", user, PlainHost, header, <<"dashboard">>)
    \/ Call_SetUser("th1")
    \/ Call_Return("th1")
    \/ \E t \in TenantIds :
          request["th1"].user = "u1" /\ TenantCreate_form_valid("th1", t)
    \/ \E v \in Vehicles, d \in Drivers, is_active \in BOOLEAN :
          VehicleAssignmentCreateView_form_valid("th1", v, d, is_active)
    \/ \E id \in 1..MaxAssignments, v \in Vehicles, d \in Drivers, is_active \in BOOLEAN :
          VehicleAssignmentUpdateView_form_valid("th1", id, v, d, is_active)
    \/ \E id \in 1..MaxAssignments : VehicleAssignmentEndView_form_valid("th1", id)
    \/ \E id \in 1..MaxAssignments : end_assignment("th1", id)
    \/ \E v \in Vehicles, d \in Drivers :
          VehicleAssignmentAdmin_save_model("th1", v, d)

SpecFleet == Init /\ [][NextFleet]_vars

\* Records: one thread reading and saving tenant-scoped records.
NextRecords ==
    \/ \E header \in Headers :
          Call_Resolve("th1", "u1", PlainHost, header, <<"dashboard">>)
    \/ Call_SetUser("th1")
    \/ Call_Return("th1")
    \/ \E t \in TenantIds : TenantCreate_form_valid("th1", t)
    \/ \E kind \in ReadKinds, t \in TenantIds : Handler_Read("th1", kind, t)
    \/ \E t \in TenantIds \cup {None}, force_insert \in BOOLEAN, skip \in BOOLEAN :
          Handler_SaveNew("th1", t, force_insert, skip)
    \/ \E i \in RecordIds, force_insert \in BOOLEAN, skip \in BOOLEAN :
          Handler_SaveStored("th1", i, force_insert, skip)
    \/ \E i \in RecordIds : TenantAwareUpdateView_form_valid("th1", i)
    \/ \E i \in RecordIds, t \in TenantIds, exclude_id \in BOOLEAN :
          clone_for_tenant("th1", i, t, exclude_id)

SpecRecords == Init /\ [][NextRecords]_vars

\* Stamps: one thread, two users saving the records of one tenant in turn.
NextStamps ==
    \/ \E user \in {"u1", "u2"}, header \in {None, "A"} :
          Call_Resolve("th1", user, PlainHost, header, <<"dashboard">>)
    \/ Call_SetUser("th1")
    \/ Call_Return("th1")
    \/ Call_Denied("th1")
    \/ TenantCreate_form_valid("th1", "A")
    \/ \E t \in {"A", None}, skip \in BOOLEAN :
          Handler_SaveNew("th1", t, FALSE, skip)
    \/ \E i \in RecordIds : Handler_SaveStored("th1", i, FALSE, FALSE)

SpecStamps == Init /\ [][NextStamps]_vars

\* Membership: two requests adding and removing members of one tenant.
NextMembers ==
    \/ \E th \in Threads, user \in {"u1", "u2"}, header \in {None, "A"} :
          Call_Resolve(th, user, PlainHost, header, <<"dashboard">>)
    \/ \E th \in Threads : Call_SetUser(th)
    \/ \E th \in Threads : Call_Return(th)
    \/ \E th \in Threads : Call_Denied(th)
    \/ \E th \in Threads : TenantCreate_form_valid(th, "A")
    \/ \E u \in {"u1", "u2"} : AddMember("A", u, "owner", TRUE)
    \/ \E u \in Users : AddMember("A", u, "user", FALSE)
    \/ \E th \in Threads, u \in {"u1", "u2"} : remove_member_check(th, "A", u)
    \/ \E th \in Threads : remove_member_post(th)

SpecMembers == Init /\ [][NextMembers]_vars

\* A request runs one view: none has started on the thread yet.
OneView(th) == pending[th] = NoPending /\ removing[th] = NoRemoval

\* Invitations: two requests inviting, accepting, adding and removing
\* members of one tenant.
NextInvites ==
    \/ \E th \in Threads, user \in {"u1", "u2"}, header \in {None, "A"} :
          Call_Resolve(th, user, PlainHost, header, <<"dashboard">>)
    \/ \E th \in Threads : Call_SetUser(th)
    \/ \E th \in Threads : Call_Return(th)
    \/ \E th \in Threads : Call_Denied(th)
    \/ \E th \in Threads :
          /\ request[th].user = "u1"
          /\ OneView(th)
          /\ TenantCreate_form_valid(th, "A")
    \/ \E th \in Threads :
          OneView(th) /\ add_member_get(th, "A", "u2", "admin", FALSE)
    \/ \E th \in Threads : add_member_create(th)
    \/ \E th \in Threads, role \in {"owner", "admin"} :
          OneView(th) /\ invite_user_clean(th, Email("u2"), role)
    \/ \E th \in Threads : invite_user_save(th)
    \/ \E id \in 1..MaxInvitations : Expire(id)
    \/ \E th \in Threads, id \in 1..MaxInvitations :
          OneView(th) /\ accept_invitation_get(th, id)
    \/ \E th \in Threads : accept_invitation_atomic(th)
    \/ \E th \in Threads : OneView(th) /\ remove_member_check(th, "A", "u2")
    \/ \E th \in Threads : remove_member_post(th)

SpecInvites == Init /\ [][NextInvites]_vars

\* One worker: tenants are created, members added, selected and removed, and
\* the users come back to the tenant-selection page and the dashboard.
NextLockout ==
    \/ \E user \in Users, path \in {TenantSelectPath, <<"dashboard">>} :
          Call_Resolve("th1", user, PlainHost, None, path)
    \/ Call_SetUser("th1")
    \/ Call_Return("th1")
    \/ Call_Denied("th1")
    \/ \E t \in TenantIds :
          request["th1"].user = "u1" /\ TenantCreate_form_valid("th1", t)
    \/ \E c \in { <<"A", "u2", "user">>, <<"A", "u2", "admin">>,
                   <<"A", "root", "user">>, <<"B", "u2", "user">> } :
          /\ request["th1"].user = "u1"
          /\ add_member_call("th1", c[1], c[2], c[3], FALSE)
    \/ \E t \in TenantIds :
          request["th1"].user # "u1" /\ TenantSelect_post("th1", t)
    \/ \E u \in {"u2", "root"} :
          OneView("th1") /\ remove_member_check("th1", "A", u)
    \/ remove_member_post("th1")

SpecLockout == Init /\ [][NextLockout]_vars

\* One worker: users log in and out, on the subdomain of tenant A and on the
\* bare domain; u1 creates A, adds and removes u2; the audit table fails and
\* recovers.
NextAudit ==
    \/ \E user \in {Anon} \cup logged_in, host \in {SubdomainA, PlainHost} :
          Call_Resolve("th1", user, host, None, <<"dashboard">>)
    \/ Call_SetUser("th1")
    \/ Call_Return("th1")
    \/ Call_Denied("th1")
    \/ /\ request["th1"].user = "u1"
       /\ OneView("th1")
       /\ TenantCreate_form_valid("th1", "A")
    \/ /\ request["th1"].user = "u1"
       /\ add_member_call("th1", "A", "u2", "user", FALSE)
    \/ OneView("th1") /\ remove_member_check("th1", "A", "u2")
    \/ remove_member_post("th1")
    \/ \E u \in {"u1", "u2"} : Login("th1", u)
    \/ Logout("th1")
    \/ SinkFails
    \/ SinkRecovers

SpecAudit == Init /\ [][NextAudit]_vars

\* ------------------------------------------------------------------ claims

InFlight(th) == pc[th] # "idle"

\* C1: while two requests are in flight on different threads,
\* get_current_tenant() and get_current_user() called on one thread never
\* return the tenant or the user that belongs only to the other thread's
\* request.
C1_ContextIsolation ==
    \A th \in Threads, other \in Threads :
        (th # other /\ InFlight(th) /\ InFlight(other)) =>
            /\ request[other].tenant # request[th].tenant
                  => get_current_tenant(th) # request[other].tenant
            /\ (request[other].user # request[th].user /\ request[other].user # Anon)
                  => get_current_user(th) # request[other].user

C1_Witness ==
    /\ pc["th1"] = "handling" /\ pc["th2"] = "handling"
    /\ request["th1"].tenant = "A" /\ request["th2"].tenant = "B"
    /\ request["th1"].user # request["th2"].user
    /\ get_current_tenant("th1") = "A" /\ get_current_tenant("th2") = "B"

\* C2: on a thread that handled earlier requests, whatever way they ended,
\* the context holds during a request only what was resolved for that
\* request: its tenant from resolution on, its user once the handler runs,
\* nothing before that.
C2_NoStaleContext ==
    \A th \in Threads :
        InFlight(th) =>
            /\ get_current_tenant(th) = request[th].tenant
            /\ get_current_user(th) =
                  IF pc[th] = "handling" /\ request[th].user # Anon
                  THEN request[th].user ELSE None

C2_Witness ==
    /\ pc["th1"] = "handling"
    /\ found["th1"].tenant \notin {None, request["th1"].tenant}
    /\ found["th1"].user \notin {None, request["th1"].user}

\* C8: when TenantMiddleware has finished with a request, however it ended,
\* the context holds no tenant and no user.
C8_ClearedWhenFinished ==
    \A th \in Threads :
        pc[th] = "idle" => thread_locals[Local(th)] = EmptyLocals

\* The step in which thread th resolves the tenant of a new request.
Resolves(th) == pc[th] = "idle" /\ pc'[th] # "idle"

C4_OnAllowList(path) ==
    \E p \in { <<"auth", "login">>, <<"auth", "register">>, <<"auth", "logout">>,
               <<"invitations", "accept">>, <<"api", "health">> } :
        /\ Len(p) <= Len(path)
        /\ SubSeq(path, 1, Len(p)) = p

C4_MustForbid(r) ==
    /\ r.tenant # None
    /\ r.user # Anon
    /\ r.user # "root"
    /\ ~\E m \in members : m.user = r.user /\ m.tenant = r.tenant /\ m.is_active
    /\ ~C4_OnAllowList(r.path)

\* C4: resolution ends in PermissionDenied, before the handler runs, exactly
\* when a tenant was resolved, the user is authenticated and no superuser,
\* has no active membership in that tenant, and the path is not on the public
\* allow-list; in every other case the request goes on to the handler.
C4_ForbiddenExactly ==
    [][\A th \in Threads :
          Resolves(th) =>
              /\ pc'[th] \in {"denied", "resolved"}
              /\ pc'[th] = "denied" <=> C4_MustForbid(request'[th])]_vars

C4_Witness ==
    /\ pc["th1"] = "denied"
    /\ request["th1"].via = "subdomain"
    /\ request["th1"].user = "u2"

\* C5: whatever strategy resolved it, the tenant the resolver puts in
\* request.tenant and in the context is active at resolution time.
C5_ResolvedTenantActive ==
    [][\A th \in Threads :
          (Resolves(th) /\ request'[th].tenant # None) =>
              tenants[request'[th].tenant] = "active"]_vars

\* C6: get_tenant returns the tenant of the first strategy, in the order
\* subdomain, header, session, user's current tenant, that yields one, and
\* a strategy after the winning one is not evaluated: when subdomain or
\* header wins, the session is left as it was.
C6_FirstStrategyWins ==
    [][\A th \in Threads :
          Resolves(th) =>
              LET r == request'[th]
                  auth == r.user # Anon
                  sub == get_tenant_from_subdomain(r.host)
                  hdr == get_tenant_from_header(r.header)
                  ses == IF auth THEN get_tenant_from_session(session[r.user]).tenant
                         ELSE None
                  usr == IF auth THEN get_tenant_from_user(r.user) ELSE None
              IN  /\ sub # None => (r.tenant = sub /\ r.via = "subdomain")
                  /\ (sub = None /\ hdr # None) => (r.tenant = hdr /\ r.via = "header")
                  /\ (sub = None /\ hdr = None /\ ses # None)
                        => (r.tenant = ses /\ r.via = "session")
                  /\ (sub = None /\ hdr = None /\ ses = None /\ usr # None)
                        => (r.tenant = usr /\ r.via = "user")
                  /\ (sub = None /\ hdr = None /\ ses = None /\ usr = None)
                        => (r.tenant = None /\ r.via = None)
                  /\ (sub # None \/ hdr # None) => session' = session]_vars

C6_Witness ==
    /\ InFlight("th1")
    /\ request["th1"].via = "subdomain"
    /\ request["th1"].tenant = "A"
    /\ request["th1"].header = "B"
    /\ tenants["B"] = "active"

StaleSession(u) == session[u] # None /\ tenants[session[u]] # "active"

\* C7 as claimed: every request whose session holds a tenant_id that
\* identifies no active tenant leaves the session without tenant_id and does
\* not resolve through the session.
C7_EveryStaleSessionCleared ==
    [][\A th \in Threads :
          (Resolves(th) /\ request'[th].user # Anon /\ StaleSession(request'[th].user))
              => /\ session'[request'[th].user] = None
                 /\ request'[th].via # "session"]_vars

\* C7, amended: when the session strategy is reached (authenticated user,
\* no tenant from subdomain or header) and the session's tenant_id
\* identifies no active tenant, the session is left without tenant_id and
\* resolution goes on to the user's current tenant.
C7_StaleSessionClearedWhenReached ==
    [][\A th \in Threads :
          LET r == request'[th]
          IN  ( /\ Resolves(th)
                /\ r.user # Anon
                /\ StaleSession(r.user)
                /\ get_tenant_from_subdomain(r.host) = None
                /\ get_tenant_from_header(r.header) = None )
              => /\ session'[r.user] = None
                 /\ r.via # "session"
                 /\ r.tenant = current_tenant[r.user]]_vars

C7_Witness ==
    /\ InFlight("th1")
    /\ request["th1"].via = "user"
    /\ session[request["th1"].user] = None
    /\ tenants[request["th1"].tenant] = "inactive"

\* C3: while the context holds tenant T, a read through the default manager
\* (directly or under a view's get_queryset) returns only records of T; a
\* record of another tenant comes back only from for_tenant, all_tenants or
\* all_objects.
C3_DefaultReadsScoped ==
    \A th \in Threads :
        (pc[th] = "handling" /\ thread_locals[th].tenant # None) =>
            \A i \in qs[th].ids :
                records[i].tenant # thread_locals[th].tenant
                    => qs[th].kind \in {"for_tenant", "all_tenants", "all_objects"}

C3_Witness ==
    /\ pc["th1"] = "handling"
    /\ thread_locals["th1"].tenant = "A"
    /\ qs["th1"].kind = "objects"
    /\ qs["th1"].ids # {}
    /\ \E i \in Stored : records[i].tenant = "B"

\* C9: a save of a new record with no tenant of its own, made while the
\* context holds no tenant and without skip_tenant_check=True, raises the
\* missing-tenant error and stores nothing.
C9_NoTenantNoSave ==
    \A th \in Threads :
        ( /\ saved[th].outcome # None
          /\ saved[th].is_new
          /\ saved[th].tenant = None
          /\ saved[th].context = None
          /\ ~saved[th].skip_tenant_check )
        => /\ saved[th].outcome = "ValueError"
           /\ ~records[saved[th].id].stored

\* C10: every tenant with an active membership has an active membership
\* with is_owner = true.
C10_OwnerRetained ==
    \A t \in TenantIds :
        (\E m \in members : m.tenant = t /\ m.is_active)
            => \E m \in members : m.tenant = t /\ m.is_active /\ m.is_owner

RowsOf(u, t) == {m \in members : m.user = u /\ m.tenant = t}

\* C11: at most one membership row exists per (user, tenant) pair, also
\* after concurrent add_member calls for the same pair, and an add_member
\* that has returned leaves exactly one row for its pair.
C11_OneMembershipPerPair ==
    /\ \A u \in Users, t \in TenantIds : Cardinality(RowsOf(u, t)) <= 1
    /\ \A th \in Threads :
          ( /\ pending[th].op = "add_member"
            /\ pending[th].outcome \in {"found", "created", "conflict"} )
          => Cardinality(RowsOf(pending[th].user, pending[th].tenant)) = 1

C11_Witness ==
    /\ pending["th1"].op = "add_member" /\ pending["th1"].outcome = "created"
    /\ pending["th2"].op = "add_member" /\ pending["th2"].outcome = "conflict"

\* C12: an invitation has accepted_at set if and only if it has accepted_by
\* and the membership row for (accepted_by, the invitation's tenant) exists,
\* also after an accept that failed or ran concurrently with another.
C12_AcceptAtomic ==
    \A inv \in invitations :
        inv.accepted <=>
            /\ inv.accepted_by # None
            /\ RowsOf(inv.accepted_by, inv.tenant) # {}

C12_Witness ==
    /\ \E inv \in invitations : inv.accepted
    /\ \E inv \in invitations : ~inv.accepted
    /\ \E th \in Threads :
          pending[th].op = "accept" /\ pending[th].outcome = "IntegrityError"

\* The step in which thread th runs the transaction of accept_invitation.
Accepts(th) ==
    /\ pending[th].op = "accept"
    /\ pending[th].outcome = "loaded"
    /\ pending'[th].op = "accept"
    /\ pending'[th].outcome # "loaded"

\* C13: accept of a valid invitation by the user with the invited email and
\* no active membership in the tenant succeeds: the invitation gets
\* accepted_at and accepted_by, and the user has exactly one active
\* membership in the tenant, with the invitation's role and is_owner false.
C13_AcceptSucceeds ==
    [][\A th \in Threads :
          \A inv \in invitations :
              ( /\ Accepts(th)
                /\ inv.id = pending[th].inv
                /\ ~inv.accepted /\ ~inv.expired
                /\ Email(pending[th].user) = inv.email
                /\ ~\E m \in members :
                       m.user = pending[th].user /\ m.tenant = inv.tenant /\ m.is_active )
              => /\ \E i \in invitations' :
                       i.id = inv.id /\ i.accepted /\ i.accepted_by = pending[th].user
                 /\ \E m \in members' :
                       /\ m.user = pending[th].user /\ m.tenant = inv.tenant
                       /\ m.is_active /\ m.role = inv.role /\ ~m.is_owner
                       /\ \A o \in members' :
                             (o.user = m.user /\ o.tenant = m.tenant /\ o.is_active)
                                 => o = m]_vars

Invites(th) == pending[th].op = None /\ pending'[th].op = "invite"

\* C15: validation refuses an invitation with role owner, so that none is
\* ever stored, and lets one with role admin, manager, user or viewer pass
\* (when nothing else is wrong with it).
C15_InvitableRoles ==
    [][\A th \in Threads :
          (Invites(th) /\ pending'[th].outcome \in {"validated", "ValidationError"})
          => LET p == pending'[th]
             IN  /\ p.role = "owner" => p.outcome = "ValidationError"
                 /\ ( /\ p.role \in {"admin", "manager", "user", "viewer"}
                      /\ ~\E m \in members :
                             /\ Email(m.user) = p.email
                             /\ m.tenant = p.tenant
                             /\ m.is_active )
                    => p.outcome = "validated"]_vars

\* The effective permissions of u's active membership in t grant invite:
\* by name, or through the wildcard.
C16_GrantsInvite(u, t) ==
    \E m \in members :
        /\ m.user = u /\ m.tenant = t /\ m.is_active
        /\ \/ "invite" \in role_permissions(m.role) \cup m.permissions
           \/ "all" \in role_permissions(m.role) \cup m.permissions

\* C16: with a tenant selected, invite_user refuses the inviter for want of
\* permission exactly when the inviter's effective permissions in the tenant
\* do not grant invite.
C16_InvitePermission ==
    [][\A th \in Threads :
          (Invites(th) /\ request[th].tenant # None)
          => ( pending'[th].outcome = "PermissionDenied"
                 <=> ~C16_GrantsInvite(request[th].user, request[th].tenant) )]_vars

C17_Above(role) ==
    CASE role = "viewer" -> {"user", "manager", "admin", "owner"}
      [] role = "user" -> {"manager", "admin", "owner"}
      [] role = "manager" -> {"admin", "owner"}
      [] role = "admin" -> {"owner"}
      [] OTHER -> {}

\* C17: an active member with role owner is granted each of read, write,
\* delete and invite by has_tenant_permission, and with the same ad-hoc
\* permissions a more privileged role is granted whatever a role is granted.
C17_OwnerHoldsAll ==
    \A m \in members :
        m.is_active =>
            /\ m.role = "owner" =>
                  \A p \in {"read", "write", "delete", "invite"} :
                      has_tenant_permission(m.user, m.tenant, p)
            /\ \A above \in C17_Above(m.role) :
                  \A p \in {"read", "write", "delete", "invite"} :
                      p \in get_permissions(m)
                          => p \in get_permissions([m EXCEPT !.role = above])

C19_CreatedByStamped ==
    \A th \in Threads :
        ( /\ pc[th] = "handling"
          /\ saved[th].outcome = "saved"
          /\ saved[th].is_new
          /\ get_current_user(th) # None )
        => records[saved[th].id].created_by = get_current_user(th)

\* C20: after a save made while the context holds an authenticated actor,
\* the stored record's updated_by is that actor.
C20_UpdatedByStamped ==
    \A th \in Threads :
        ( /\ pc[th] = "handling"
          /\ saved[th].outcome = "saved"
          /\ get_current_user(th) # None )
        => records[saved[th].id].updated_by = get_current_user(th)

\* A step in which thread th tries to accept an invitation: the view loads
\* it, or the transaction around invitation.accept runs.
AcceptAttempt(th) ==
    \/ pending[th] = NoPending /\ pending'[th].op = "accept"
    \/ Accepts(th)

\* C22: accept of an invitation that is already accepted or has expired, and
\* accept by a user whose email is not the invited one, fail: no membership
\* is created and the invitation's acceptance fields stay as they were.
C22_InvalidAcceptFails ==
    [][\A th \in Threads :
          \A inv \in invitations :
              ( /\ AcceptAttempt(th)
                /\ inv.id = pending'[th].inv
                /\ \/ inv.accepted
                   \/ inv.expired
                   \/ Email(pending'[th].user) # inv.email )
              => /\ pending'[th].outcome \in
                        {"invalid", "wrong_email", "ValueError", "IntegrityError"}
                 /\ members' = members
                 /\ invitations' = invitations]_vars

C22_Witness ==
    \E th \in Threads :
        /\ pending[th].op = "accept"
        /\ pending[th].outcome = "ValueError"
        /\ \E inv \in invitations :
              /\ inv.id = pending[th].inv
              /\ inv.expired
              /\ ~inv.accepted
              /\ inv.accepted_by = None
        /\ ~\E mb \in members : mb.user = pending[th].user

C28_NoTenantReadsAll ==
    \A th \in Threads :
        ( /\ pc[th] = "handling"
          /\ core_get_current_tenant(th) = None
          /\ qs[th].kind = "objects" )
        => qs[th].ids = Stored

C28_Witness ==
    /\ pc["th1"] = "handling"
    /\ core_get_current_tenant("th1") = None
    /\ qs["th1"].kind = "objects"
    /\ \E i \in qs["th1"].ids : records[i].tenant = "A"
    /\ \E i \in qs["th1"].ids : records[i].tenant = "B"

\* C24: a request of an authenticated user who is no member of the resolved
\* tenant, to a path at which register, login, logout or accept_invitation
\* is routed, is not rejected with Forbidden.
C24_RoutedPublicReachable ==
    \A th \in Threads :
        pc[th] = "denied" => request[th].path \notin RoutedPublicPaths

\* The request r resolved, through the session or the user's current tenant
\* and on a path off the allow-list, to a tenant in which its user's
\* membership was removed.
C29_LockedOut(r) ==
    /\ r.via \in {"session", "user"}
    /\ ~is_public_route(r.path)
    /\ \E mb \in members :
          mb.user = r.user /\ mb.tenant = r.tenant /\ ~mb.is_active

\* The step in which thread th writes the removal of a member.
Removes(th) == removing[th].step = "checked" /\ removing'[th].step = "removed"

\* C29 as stated: remove_member leaves the removed user's session tenant_id
\* and current_tenant alone, and every later request of that user that
\* resolves to the tenant through either of them, on a path off the
\* allow-list, is rejected with Forbidden.
C29_EveryRemovedUserLockedOut ==
    [][\A th \in Threads :
          /\ Removes(th) => (session' = session /\ current_tenant' = current_tenant)
          /\ (Resolves(th) /\ C29_LockedOut(request'[th]))
                => pc'[th] = "denied"]_vars

\* C29, for the users the membership validation applies to: remove_member
\* leaves the removed user's session tenant_id and current_tenant alone, and
\* every later request of a removed user who is no superuser that resolves
\* to the tenant through either of them, on a path off the allow-list, is
\* rejected with Forbidden, the tenant-selection page included.
C29_RemovedUserLockedOut ==
    [][\A th \in Threads :
          /\ Removes(th) => (session' = session /\ current_tenant' = current_tenant)
          /\ ( /\ Resolves(th)
               /\ C29_LockedOut(request'[th])
               /\ ~is_superuser(request'[th].user) )
                => pc'[th] = "denied"]_vars

C29_Witness ==
    /\ pc["th1"] = "denied"
    /\ request["th1"].user = "u2"
    /\ request["th1"].via = "session"
    /\ request["th1"].tenant = "A"
    /\ request["th1"].path = TenantSelectPath
    /\ session["u2"] = "A"
    /\ \E mb \in members : mb.user = "u2" /\ mb.tenant = "A" /\ ~mb.is_active
    /\ \E mb \in members : mb.user = "u2" /\ mb.tenant = "B" /\ mb.is_active

\* C30: add_member for a user and tenant whose membership row exists leaves
\* the memberships as they are, whatever role and is_owner it is given; a
\* soft-removed member stays inactive.
C30_AddExistingChangesNothing ==
    [][\A th \in Threads :
          ( /\ pending[th] = NoPending
            /\ pending'[th].op = "add_member_call"
            /\ \E mb \in members :
                  mb.user = pending'[th].user /\ mb.tenant = pending'[th].tenant )
          => members' = members]_vars

C30_Witness ==
    \E th \in Threads :
        /\ pending[th].op = "add_member_call"
        /\ pending[th].outcome = "returned"
        /\ \E mb \in members :
              /\ mb.user = pending[th].user
              /\ mb.tenant = pending[th].tenant
              /\ ~mb.is_active
              /\ mb.role # pending[th].role

\* C21: a stored record that has a tenant keeps it: no save in whatever
\* context, no update view and no clone_for_tenant changes the tenant of a
\* record already stored.
C21_TenantImmutable ==
    [][\A i \in RecordIds :
          (records[i].stored /\ records[i].tenant # None)
          => (records'[i].stored /\ records'[i].tenant = records[i].tenant)]_vars

C21_Witness ==
    /\ pc["th1"] = "handling"
    /\ saved["th1"].outcome = "saved"
    /\ ~saved["th1"].is_new
    /\ saved["th1"].context = "B"
    /\ records[saved["th1"].id].tenant = "A"
    /\ \E i \in Stored : i # saved["th1"].id /\ records[i].tenant = "B"

\* C27: whatever VehicleAssignment saves and end_assignment calls were made,
\* no vehicle and no driver has two active assignments.
C27_OneActiveAssignment ==
    \A a \in assignments, b \in assignments :
        ( /\ a.is_active
          /\ b.is_active
          /\ (a.vehicle = b.vehicle \/ a.driver = b.driver) )
        => a = b

\* The steps in which thread th logs a user in, logs its user out, calls
\* add_member for a pair without a row, and creates tenant t.
LoginStep(th) == pending[th] = NoPending /\ pending'[th].op = "login"

LogoutStep(th) == pending[th] = NoPending /\ pending'[th].op = "logout"

AddStep(th) ==
    /\ pending[th] = NoPending
    /\ pending'[th].op = "add_member_call"
    /\ ~\E mb \in members :
           mb.user = pending'[th].user /\ mb.tenant = pending'[th].tenant

CreateStep(th, t) ==
    /\ pc[th] = "handling"
    /\ tenants[t] = "absent"
    /\ tenants'[t] = "active"

C26_Logged(t, u, k) ==
    Cardinality({i \in (Len(audit_log) + 1)..Len(audit_log') :
                    /\ audit_log'[i].tenant = t
                    /\ audit_log'[i].user = u
                    /\ audit_log'[i].action = k}) = 1

\* C26: while the audit table takes writes, every tenant creation, every
\* membership add, every removal by remove_member, and every login and
\* logout on a request with a tenant writes exactly one audit row with that
\* tenant, the acting user and the kind of the action.
C26_EveryOperationAudited ==
    [][sink_ok =>
        \A th \in Threads :
          /\ \A t \in TenantIds :
                CreateStep(th, t) => C26_Logged(t, request[th].user, "create")
          /\ AddStep(th)
                => C26_Logged(pending'[th].tenant, request[th].user, "add_member")
          /\ Removes(th)
                => C26_Logged(removing[th].tenant, request[th].user, "remove_member")
          /\ (LoginStep(th) /\ pending'[th].tenant # None)
                => C26_Logged(pending'[th].tenant, pending'[th].user, "login")
          /\ (LogoutStep(th) /\ pending'[th].tenant # None)
                => C26_Logged(pending'[th].tenant, pending'[th].user, "logout")]_vars

====
